---- MODULE Spec2Model ----
(***************************************************************************)
(* Cuboid / Cube and Cylinder primitives of collision-rs                   *)
(* (src/primitive/cuboid.rs, src/primitive/cylinder.rs).                   *)
(*                                                                         *)
(* The scalar type S: BaseFloat is modelled in exact arithmetic: a scalar  *)
(* is a number (n + s * sqrt(r)) / d with integers n, s, d, r (d > 0), so  *)
(* that the square roots of the quadratic solve, of magnitude() and of the *)
(* bounding sphere are exact.  d = 0 stands for the non-finite values      *)
(* (inf, NaN) a division by zero or the square root of a negative number   *)
(* produces.  Rounding error is outside the model.                         *)
(***************************************************************************)
EXTENDS Integers, Sequences, FiniteSets, TLC

VARIABLES shape, arg, op, res

vars == <<shape, arg, op, res>>

-----------------------------------------------------------------------------
(* Bounds of the model *)

\* the half_height of a Cylinder ranges over 1..MaxHalfHeight
MaxHalfHeight == 1
\* the radius of a Cylinder ranges over 1..MaxRadius
MaxRadius == 2
\* ray origin coordinates range over -MaxCoord..MaxCoord
MaxCoord == 2
\* direction components range over -MaxDir..MaxDir
MaxDir == 1
\* the dimensions of a Cuboid range over 1..MaxDim
MaxDim == 2
\* the magnitudes of a normal's components range over 0..MaxNormal
MaxNormal == 2
\* the scale of a transform ranges over 0..MaxScale
MaxScale == 1
\* the displacement of a transform along X ranges over 0..MaxDisp
MaxDisp == 1

-----------------------------------------------------------------------------
(* Scalars *)

Abs(i) == IF i < 0 THEN -i ELSE i

Sgn(i) == IF i > 0 THEN 1 ELSE IF i < 0 THEN -1 ELSE 0

RECURSIVE Gcd(_, _)
Gcd(a, b) == IF b = 0 THEN a ELSE Gcd(b, a % b)

\* the integer square root of m >= 0, searched upwards from k
RECURSIVE IsqrtFrom(_, _)
IsqrtFrom(k, m) == IF (k + 1) * (k + 1) > m THEN k ELSE IsqrtFrom(k + 1, m)

Isqrt(m) == IsqrtFrom(0, m)

IsSquare(m) == Isqrt(m) * Isqrt(m) = m

\* (n + s * sqrt(r)) / d
Num(n, s, d, r) == [n |-> n, s |-> s, d |-> d, r |-> r]

Rat(n, d) == IF d < 0 THEN Num(-n, 0, -d, 0) ELSE Num(n, 0, d, 0)

I(n) == Num(n, 0, 1, 0)

\* inf or NaN
NonFinite == Num(0, 0, 0, 0)

IsFinite(a) == a.d # 0

\* the radicand two operands share
Rad(a, b) == IF a.s # 0 THEN a.r ELSE IF b.s # 0 THEN b.r ELSE 0

\* lowest terms
Norm(a) ==
    IF ~IsFinite(a) THEN NonFinite
    ELSE LET g == Gcd(Gcd(Abs(a.n), Abs(a.s)), a.d)
         IN  Num(a.n \div g, a.s \div g, a.d \div g, IF a.s = 0 THEN 0 ELSE a.r)

VNorm(v) == [x |-> Norm(v.x), y |-> Norm(v.y), z |-> Norm(v.z)]

Neg(a) == Num(-a.n, -a.s, a.d, a.r)

\* a non-finite operand makes the result non-finite: its d is 0
Add(a, b) ==
    Num(a.n * b.d + b.n * a.d, a.s * b.d + b.s * a.d, a.d * b.d, Rad(a, b))

Sub(a, b) ==
    Num(a.n * b.d - b.n * a.d, a.s * b.d - b.s * a.d, a.d * b.d, Rad(a, b))

Mul(a, b) ==
    Num(a.n * b.n + a.s * b.s * Rad(a, b), a.n * b.s + a.s * b.n, a.d * b.d, Rad(a, b))

\* -1, 0 or 1: the sign of a finite scalar
Sign(a) ==
    IF a.s = 0 \/ a.r = 0 THEN Sgn(a.n)
    ELSE IF a.n = 0 THEN Sgn(a.s)
    ELSE IF (a.n > 0) = (a.s > 0) THEN Sgn(a.n)
    ELSE Sgn(a.n) * Sgn(a.n * a.n - a.s * a.s * a.r)

IsZero(a) == IsFinite(a) /\ Sign(a) = 0

\* a / b; x / 0 is non-finite
Div(a, b) ==
    IF ~IsFinite(a) \/ ~IsFinite(b) \/ Sign(b) = 0 THEN NonFinite
    ELSE IF b.s = 0
         THEN IF b.n > 0 THEN Num(a.n * b.d, a.s * b.d, a.d * b.n, a.r)
              ELSE Num(-(a.n * b.d), -(a.s * b.d), -(a.d * b.n), a.r)
    ELSE LET \* 1 / b = b.d * (b.n - b.s sqrt(r)) / (b.n^2 - b.s^2 r)
             nrm  == b.n * b.n - b.s * b.s * b.r
             inv  == IF nrm > 0 THEN Num(b.d * b.n, -(b.d * b.s), nrm, b.r)
                     ELSE Num(-(b.d * b.n), b.d * b.s, -nrm, b.r)
         IN  Mul(a, inv)

\* comparisons; every comparison with a non-finite operand is false (NaN), and
\* the infinities a division by zero yields never decide a branch differently
Lt(a, b) == a.d * b.d # 0 /\ Sign(Sub(a, b)) < 0
Le(a, b) == a.d * b.d # 0 /\ Sign(Sub(a, b)) <= 0
Gt(a, b) == Lt(b, a)
Ge(a, b) == Le(b, a)
Eq(a, b) == a.d * b.d # 0 /\ Sign(Sub(a, b)) = 0

Min(a, b) == IF Lt(b, a) THEN b ELSE a
Max(a, b) == IF Gt(b, a) THEN b ELSE a

\* sqrt of a rational scalar; NaN below zero
Sqrt(a) ==
    CASE ~IsFinite(a) -> NonFinite
      [] IsFinite(a) /\ a.s = 0 /\ a.n < 0 -> NonFinite
      [] IsFinite(a) /\ a.s = 0 /\ a.n >= 0 ->
            LET q == Norm(a)
                m == q.n * q.d
            IN  IF IsSquare(m) THEN Num(Isqrt(m), 0, q.d, 0)
                ELSE Num(0, 1, q.d, m)

Zero == I(0)
One == I(1)

-----------------------------------------------------------------------------
(* Vector3 / Point3 *)

Vec3(x, y, z) == [x |-> x, y |-> y, z |-> z]

IVec3(x, y, z) == Vec3(I(x), I(y), I(z))

unit_y == IVec3(0, 1, 0)

VZero == IVec3(0, 0, 0)

VNeg(v) == Vec3(Neg(v.x), Neg(v.y), Neg(v.z))

VAdd(v, w) == Vec3(Add(v.x, w.x), Add(v.y, w.y), Add(v.z, w.z))

VScale(v, k) == Vec3(Mul(v.x, k), Mul(v.y, k), Mul(v.z, k))

VDiv(v, k) == Vec3(Div(v.x, k), Div(v.y, k), Div(v.z, k))

Dot(v, w) == Add(Add(Mul(v.x, w.x), Mul(v.y, w.y)), Mul(v.z, w.z))

Magnitude2(v) == Dot(v, v)

Magnitude(v) == Sqrt(Magnitude2(v))

Normalize(v) == VDiv(v, Magnitude(v))

VEq(v, w) == Eq(v.x, w.x) /\ Eq(v.y, w.y) /\ Eq(v.z, w.z)

VFinite(v) == IsFinite(v.x) /\ IsFinite(v.y) /\ IsFinite(v.z)

\* Option
None == [some |-> FALSE]
Some(v) == [some |-> TRUE, val |-> v]

Ray3(origin, direction) == [origin |-> origin, direction |-> direction]

-----------------------------------------------------------------------------
(* Cylinder *)

Cylinder_new(half_height, radius) ==
    [kind |-> "Cylinder", half_height |-> half_height, radius |-> radius]

\* the roots of x(t)^2 + z(t)^2 = radius^2, none when the discriminant is negative
cylinder_ray_quadratic_solve(r, radius) ==
    LET two  == Add(One, One)
        a    == Add(Mul(r.direction.x, r.direction.x), Mul(r.direction.z, r.direction.z))
        b    == Mul(two, Add(Mul(r.direction.x, r.origin.x), Mul(r.direction.z, r.origin.z)))
        c    == Sub(Add(Mul(r.origin.x, r.origin.x), Mul(r.origin.z, r.origin.z)),
                    Mul(radius, radius))
        four == Add(two, two)
        dr   == Sub(Mul(b, b), Mul(Mul(four, a), c))
    IN  IF Lt(dr, Zero) THEN None
        ELSE LET drsqrt == Sqrt(dr)
                 t1 == Div(Add(Neg(b), drsqrt), Mul(two, a))
                 t2 == Div(Sub(Neg(b), drsqrt), Mul(two, a))
             IN  Some(<<t1, t2>>)

\* p.x * p.x + p.z * p.z < self.radius * self.radius
InsideRadius(self, p) ==
    Lt(Add(Mul(p.x, p.x), Mul(p.z, p.z)), Mul(self.radius, self.radius))

\* r.origin + r.direction * t
RayAt(r, t) == VAdd(r.origin, VScale(r.direction, t))

\* let t = if t1 < 0 { t2 } else if t2 < 0 { t1 } else { t1.min(t2) }
PickRoot(t1, t2) ==
    IF Lt(t1, Zero) THEN t2
    ELSE IF Lt(t2, Zero) THEN t1
    ELSE Min(t1, t2)

\* -(h + r.origin.dot(n)) / r.direction.dot(n)
CapParam(h, r, n) == Div(Neg(Add(h, Dot(r.origin, n))), Dot(r.direction, n))

\* the two cap tests with tp > 0 and tb > 0 for >= 0
IntersectsCaps_Strict(self, r) ==
    LET tp == CapParam(self.half_height, r, VNeg(unit_y))
        tb == CapParam(Neg(self.half_height), r, unit_y)
    IN  IF Gt(tp, Zero) /\ InsideRadius(self, RayAt(r, tp)) THEN TRUE
        ELSE IF Gt(tb, Zero) /\ InsideRadius(self, RayAt(r, tb)) THEN TRUE
        ELSE FALSE

\* the two cap tests of intersects, once the lateral point is out of range
IntersectsCaps(self, r) ==
    LET tp == CapParam(self.half_height, r, VNeg(unit_y))
        tb == CapParam(Neg(self.half_height), r, unit_y)
    IN  IF Ge(tp, Zero) /\ InsideRadius(self, RayAt(r, tp)) THEN TRUE
        ELSE IF Ge(tb, Zero) /\ InsideRadius(self, RayAt(r, tb)) THEN TRUE
        ELSE FALSE

Cylinder_intersects(self, r) ==
    IF IsZero(r.direction.x) /\ IsZero(r.direction.z)
    THEN IF IsZero(r.direction.y) THEN FALSE
         ELSE \/ (Ge(r.origin.y, Neg(self.half_height)) /\ Le(r.direction.y, Zero))
              \/ (Le(r.origin.y, self.half_height) /\ Ge(r.direction.y, Zero))
    ELSE
    LET q == cylinder_ray_quadratic_solve(r, self.radius)
    IN  IF ~q.some THEN FALSE
        ELSE IF Lt(q.val[1], Zero) /\ Lt(q.val[2], Zero) THEN FALSE
        ELSE LET pc == RayAt(r, PickRoot(q.val[1], q.val[2]))
             IN  IF Le(pc.y, self.half_height) /\ Ge(pc.y, Neg(self.half_height))
                 THEN TRUE
                 ELSE IntersectsCaps(self, r)

\* the vertical branch with origin.y > half_height for >= in its first test
IntersectionNormalVertical_Strict(self, r) ==
    IF \/ IsZero(r.direction.y)
       \/ Gt(Magnitude(Vec3(r.origin.x, Zero, r.origin.z)), self.radius)
    THEN None
    ELSE IF Gt(r.origin.y, self.half_height) /\ Lt(r.direction.y, Zero)
         THEN Some(<<Vec3(r.origin.x, self.half_height, r.origin.z), unit_y>>)
    ELSE IF Ge(r.origin.y, Neg(self.half_height)) /\ Lt(r.direction.y, Zero)
         THEN Some(<<Vec3(r.origin.x, Neg(self.half_height), r.origin.z), VNeg(unit_y)>>)
    ELSE IF Le(r.origin.y, Neg(self.half_height)) /\ Gt(r.direction.y, Zero)
         THEN Some(<<Vec3(r.origin.x, Neg(self.half_height), r.origin.z), VNeg(unit_y)>>)
    ELSE IF Le(r.origin.y, self.half_height) /\ Gt(r.direction.y, Zero)
         THEN Some(<<Vec3(r.origin.x, self.half_height, r.origin.z), unit_y>>)
    ELSE None

\* the vertical branch of intersection_normal
IntersectionNormalVertical(self, r) ==
    IF \/ IsZero(r.direction.y)
       \/ Gt(Magnitude(Vec3(r.origin.x, Zero, r.origin.z)), self.radius)
    THEN None
    ELSE IF Ge(r.origin.y, self.half_height) /\ Lt(r.direction.y, Zero)
         THEN Some(<<Vec3(r.origin.x, self.half_height, r.origin.z), unit_y>>)
    ELSE IF Ge(r.origin.y, Neg(self.half_height)) /\ Lt(r.direction.y, Zero)
         THEN Some(<<Vec3(r.origin.x, Neg(self.half_height), r.origin.z), VNeg(unit_y)>>)
    ELSE IF Le(r.origin.y, Neg(self.half_height)) /\ Gt(r.direction.y, Zero)
         THEN Some(<<Vec3(r.origin.x, Neg(self.half_height), r.origin.z), VNeg(unit_y)>>)
    ELSE IF Le(r.origin.y, self.half_height) /\ Gt(r.direction.y, Zero)
         THEN Some(<<Vec3(r.origin.x, self.half_height, r.origin.z), unit_y>>)
    ELSE None

\* one cap test of intersection_normal: the state (t, hit_cap, cap_y, normal)
\* after testing the cap parameter tc against the state st before it
CapTest(self, r, st, tc, y, n) ==
    IF Ge(tc, Zero) /\ Lt(tc, st.t) /\ InsideRadius(self, RayAt(r, tc))
    THEN [t |-> tc, hit_cap |-> TRUE, cap_y |-> y, normal |-> n]
    ELSE st

\* the end of intersection_normal without the height check
IntersectionNormalFinish_NoCheck(self, r, st) ==
    LET pc0    == RayAt(r, st.t)
        pc     == IF st.hit_cap THEN Vec3(pc0.x, st.cap_y, pc0.z) ELSE pc0
        normal == IF st.hit_cap THEN st.normal
                  ELSE Normalize(Vec3(pc.x, Zero, pc.z))
    IN  Some(<<VNorm(pc), VNorm(normal)>>)

\* the end of intersection_normal: the point, the normal and the height check
IntersectionNormalFinish(self, r, st) ==
    LET pc0    == RayAt(r, st.t)
        pc     == IF st.hit_cap THEN Vec3(pc0.x, st.cap_y, pc0.z) ELSE pc0
        normal == IF st.hit_cap THEN st.normal
                  ELSE Normalize(Vec3(pc.x, Zero, pc.z))
    IN  IF Gt(pc.y, self.half_height) \/ Lt(pc.y, Neg(self.half_height))
        THEN None
        ELSE Some(<<VNorm(pc), VNorm(normal)>>)

Cylinder_intersection_normal(self, r) ==
    IF IsZero(r.direction.x) /\ IsZero(r.direction.z)
    THEN IntersectionNormalVertical(self, r)
    ELSE
    LET q == cylinder_ray_quadratic_solve(r, self.radius)
    IN  IF ~q.some THEN None
        ELSE IF Lt(q.val[1], Zero) /\ Lt(q.val[2], Zero) THEN None
        ELSE LET st0 == [t |-> PickRoot(q.val[1], q.val[2]), hit_cap |-> FALSE,
                         cap_y |-> Zero, normal |-> VZero]
                 st1 == CapTest(self, r, st0,
                                CapParam(self.half_height, r, VNeg(unit_y)),
                                self.half_height, unit_y)
                 st2 == CapTest(self, r, st1,
                                CapParam(Neg(self.half_height), r, unit_y),
                                Neg(self.half_height), VNeg(unit_y))
             IN  IntersectionNormalFinish(self, r, st2)

Cylinder_intersection(self, r) ==
    LET h == Cylinder_intersection_normal(self, r)
    IN  IF h.some THEN Some(h.val[1]) ELSE None

-----------------------------------------------------------------------------
(* The Transform a support point is asked under: cgmath's Decomposed, as the  *)
(* tests build it (scale, a rotation about Z, a displacement).  The rotation  *)
(* is a number of quarter turns, which keeps it exact.                        *)

Decomposed(scale, rot, disp) == [scale |-> scale, rot |-> rot, disp |-> disp]

\* v turned by k quarter turns about the Z axis
RotZ(k, v) ==
    CASE k = 0 -> v
      [] k = 1 -> Vec3(Neg(v.y), v.x, v.z)
      [] k = 2 -> Vec3(Neg(v.x), Neg(v.y), v.z)
      [] k = 3 -> Vec3(v.y, Neg(v.x), v.z)

\* rot * (point * scale) + disp
transform_point(t, p) == VAdd(RotZ(t.rot, VScale(p, t.scale)), t.disp)

\* None when the scale is zero, else rot^-1 * (vec / scale)
inverse_transform_vector(t, v) ==
    IF IsZero(t.scale) THEN None
    ELSE Some(RotZ((4 - t.rot) % 4, VDiv(v, t.scale)))

\* the outcome of Option::unwrap on None: the query panics
Fault == [some |-> FALSE, fault |-> TRUE]

IsFault(r) == "fault" \in DOMAIN r

-----------------------------------------------------------------------------
(* Cylinder: support point and bounds *)

VIsZero(v) == IsZero(v.x) /\ IsZero(v.y) /\ IsZero(v.z)

\* the lateral part of the support point: result.y = 0, then normalize and scale
SupportLateral(self, direction) ==
    LET flat == Vec3(direction.x, Zero, direction.z)
    IN  IF IsZero(Magnitude2(flat)) THEN VZero
        ELSE LET n == Normalize(flat)
             IN  IF VIsZero(n) THEN VZero ELSE VScale(n, self.radius)

\* the sign bit of a float: set for every negative number and for -0.0.  The
\* exact scalar y has no signed zero, so neg_zero tells which zero a zero is.
is_sign_negative(y, neg_zero) == Lt(y, Zero) \/ (IsZero(y) /\ neg_zero)

\* the cap choice with its two branches exchanged
SupportY_Flipped(self, negative) ==
    IF negative THEN self.half_height ELSE Neg(self.half_height)

\* if negative { result.y = -self.half_height } else { result.y = self.half_height }
SupportY(self, negative) ==
    IF negative THEN Neg(self.half_height) ELSE self.half_height

\* neg_zero: the transform's inverse left -0.0 where the local direction's Y is
\* zero (the sign of a zero is decided by the transform's arithmetic)
Cylinder_support_point(self, direction, transform, neg_zero) ==
    LET inv == inverse_transform_vector(transform, direction)
    IN  IF ~inv.some THEN Fault
        ELSE LET negative == is_sign_negative(inv.val.y, neg_zero)
                 lateral  == SupportLateral(self, inv.val)
                 result   == Vec3(lateral.x, SupportY(self, negative), lateral.z)
             IN  Some(VNorm(transform_point(transform, result)))

\* abs() of a scalar
ScalarAbs(a) == IF Lt(a, Zero) THEN Neg(a) ELSE a

\* signum() of a scalar: -1.0 for a negative number, 1.0 for a positive one
\* (and for +0.0)
Signum(a) == IF Lt(a, Zero) THEN I(-1) ELSE I(1)

\* the cap normal when normal.y.abs() >= flat.magnitude()
Cylinder_closest_valid_normal_local_TieCap(self, normal) ==
    LET flat == Vec3(normal.x, Zero, normal.z)
    IN  IF Ge(ScalarAbs(normal.y), Magnitude(flat))
        THEN Vec3(Zero, Signum(normal.y), Zero)
        ELSE Normalize(flat)

Cylinder_closest_valid_normal_local(self, normal) ==
    LET flat == Vec3(normal.x, Zero, normal.z)
    IN  IF Gt(ScalarAbs(normal.y), Magnitude(flat))
        THEN Vec3(Zero, Signum(normal.y), Zero)
        ELSE Normalize(flat)

Aabb3_new(p1, p2) == [min |-> p1, max |-> p2]

Sphere(center, radius) == [center |-> center, radius |-> radius]

Cylinder_compute_bound_aabb(self) ==
    Aabb3_new(Vec3(Neg(self.radius), Neg(self.half_height), Neg(self.radius)),
              Vec3(self.radius, self.half_height, self.radius))

\* a sphere whose radius is the larger of radius and half_height
Cylinder_compute_bound_sphere_Max(self) ==
    Sphere(VZero, Max(self.radius, self.half_height))

Cylinder_compute_bound_sphere(self) ==
    Sphere(VZero,
           Sqrt(Add(Mul(self.radius, self.radius), Mul(self.half_height, self.half_height))))

-----------------------------------------------------------------------------
(* Aabb3: the box's own ray routine, which Cuboid delegates to *)

Axes == {"x", "y", "z"}

Unit(ax, k) == [x |-> I(IF ax = "x" THEN k ELSE 0),
                y |-> I(IF ax = "y" THEN k ELSE 0),
                z |-> I(IF ax = "z" THEN k ELSE 0)]

\* the first axis, in the order x, y, z, of a non-empty set of axes
FirstAxis(S) == IF "x" \in S THEN "x" ELSE IF "y" \in S THEN "y" ELSE "z"

\* where the ray enters and leaves the slab of axis ax
SlabNear(box, ray, ax) ==
    Min(Div(Sub(box.min[ax], ray.origin[ax]), ray.direction[ax]),
        Div(Sub(box.max[ax], ray.origin[ax]), ray.direction[ax]))

SlabFar(box, ray, ax) ==
    Max(Div(Sub(box.min[ax], ray.origin[ax]), ray.direction[ax]),
        Div(Sub(box.max[ax], ray.origin[ax]), ray.direction[ax]))

\* slab intersection: the point where the ray enters the box (where it leaves
\* it, when it starts inside) and the outward normal of the face it crosses
Aabb3_intersection_normal(box, ray) ==
    LET moving == {ax \in Axes : ~IsZero(ray.direction[ax])}
        missed == \E ax \in Axes \ moving :
                     Lt(ray.origin[ax], box.min[ax]) \/ Gt(ray.origin[ax], box.max[ax])
        nx == SlabNear(box, ray, "x")
        ny == SlabNear(box, ray, "y")
        nz == SlabNear(box, ray, "z")
        fx == SlabFar(box, ray, "x")
        fy == SlabFar(box, ray, "y")
        fz == SlabFar(box, ray, "z")
        near(ax) == IF ax = "x" THEN nx ELSE IF ax = "y" THEN ny ELSE nz
        far(ax)  == IF ax = "x" THEN fx ELSE IF ax = "y" THEN fy ELSE fz
    IN  IF moving = {} \/ missed THEN None
        ELSE
        LET entry == FirstAxis({ax \in moving : \A b \in moving : Ge(near(ax), near(b))})
            exit  == FirstAxis({ax \in moving : \A b \in moving : Le(far(ax), far(b))})
            tmin  == near(entry)
            tmax  == far(exit)
        IN  IF Lt(tmax, tmin) \/ Lt(tmax, Zero) THEN None
            ELSE IF Ge(tmin, Zero)
                 THEN Some(<<VNorm(RayAt(ray, tmin)),
                             Unit(entry, -Sign(ray.direction[entry]))>>)
                 ELSE Some(<<VNorm(RayAt(ray, tmax)),
                             Unit(exit, Sign(ray.direction[exit]))>>)

Aabb3_intersects(box, ray) == Aabb3_intersection_normal(box, ray).some

-----------------------------------------------------------------------------
(* Cuboid and Cube *)

\* the corners with the last one repeating the fourth
generate_corners_Typo(half_dim) ==
    << Vec3(half_dim.x, half_dim.y, half_dim.z),
       Vec3(Neg(half_dim.x), half_dim.y, half_dim.z),
       Vec3(Neg(half_dim.x), Neg(half_dim.y), half_dim.z),
       Vec3(half_dim.x, Neg(half_dim.y), half_dim.z),
       Vec3(half_dim.x, half_dim.y, Neg(half_dim.z)),
       Vec3(Neg(half_dim.x), half_dim.y, Neg(half_dim.z)),
       Vec3(Neg(half_dim.x), Neg(half_dim.y), Neg(half_dim.z)),
       Vec3(half_dim.x, Neg(half_dim.y), half_dim.z) >>

generate_corners(half_dim) ==
    << Vec3(half_dim.x, half_dim.y, half_dim.z),
       Vec3(Neg(half_dim.x), half_dim.y, half_dim.z),
       Vec3(Neg(half_dim.x), Neg(half_dim.y), half_dim.z),
       Vec3(half_dim.x, Neg(half_dim.y), half_dim.z),
       Vec3(half_dim.x, half_dim.y, Neg(half_dim.z)),
       Vec3(Neg(half_dim.x), half_dim.y, Neg(half_dim.z)),
       Vec3(Neg(half_dim.x), Neg(half_dim.y), Neg(half_dim.z)),
       Vec3(half_dim.x, Neg(half_dim.y), Neg(half_dim.z)) >>

Cuboid_new_impl(dim) ==
    LET half_dim == VNorm(VDiv(dim, Add(One, One)))
    IN  [kind |-> "Cuboid", dim |-> dim, half_dim |-> half_dim,
         corners |-> generate_corners(half_dim)]

Cuboid_new(dim_x, dim_y, dim_z) == Cuboid_new_impl(Vec3(dim_x, dim_y, dim_z))

Cube_new(dim) == [kind |-> "Cube", cuboid |-> Cuboid_new(dim, dim, dim)]

\* a float as sign bit and magnitude: abs() is the magnitude, and signum() is
\* 1.0 for +0.0 and every positive number, -1.0 for -0.0 and every negative one
Float(neg, mag) == [neg |-> neg, mag |-> mag]

signum(f) == IF f.neg THEN -1 ELSE 1

\* the face normal with normal.y.abs() > normal.x.abs() for >= in the second test
Cuboid_closest_valid_normal_local_StrictY(self, normal) ==
    IF normal.x.mag > normal.y.mag /\ normal.x.mag > normal.z.mag
    THEN IVec3(signum(normal.x), 0, 0)
    ELSE IF normal.y.mag > normal.z.mag /\ normal.y.mag > normal.x.mag
    THEN IVec3(0, signum(normal.y), 0)
    ELSE IVec3(0, 0, signum(normal.z))

\* the face normal without signum(): always the positive face
Cuboid_closest_valid_normal_local_Unsigned(self, normal) ==
    IF normal.x.mag > normal.y.mag /\ normal.x.mag > normal.z.mag
    THEN IVec3(1, 0, 0)
    ELSE IF normal.y.mag > normal.z.mag /\ normal.y.mag >= normal.x.mag
    THEN IVec3(0, 1, 0)
    ELSE IVec3(0, 0, 1)

Cuboid_closest_valid_normal_local(self, normal) ==
    IF normal.x.mag > normal.y.mag /\ normal.x.mag > normal.z.mag
    THEN IVec3(signum(normal.x), 0, 0)
    ELSE IF normal.y.mag > normal.z.mag /\ normal.y.mag >= normal.x.mag
    THEN IVec3(0, signum(normal.y), 0)
    ELSE IVec3(0, 0, signum(normal.z))

Cube_closest_valid_normal_local(self, normal) ==
    Cuboid_closest_valid_normal_local(self.cuboid, normal)

Cuboid_compute_bound_aabb(self) == Aabb3_new(VNeg(self.half_dim), self.half_dim)

Cuboid_compute_bound_sphere(self) ==
    Sphere(VZero, Max(Max(self.half_dim.x, self.half_dim.y), self.half_dim.z))

Cuboid_intersects(self, ray) ==
    Aabb3_intersects(Aabb3_new(VNeg(self.half_dim), self.half_dim), ray)

\* the ray test against the box [-dim, dim]
Cuboid_intersection_normal_FullDim(self, ray) ==
    Aabb3_intersection_normal(Aabb3_new(VNeg(self.dim), self.dim), ray)

Cuboid_intersection_normal(self, ray) ==
    Aabb3_intersection_normal(Aabb3_new(VNeg(self.half_dim), self.half_dim), ray)

Cuboid_intersection(self, ray) ==
    LET h == Cuboid_intersection_normal(self, ray)
    IN  IF h.some THEN Some(h.val[1]) ELSE None

-----------------------------------------------------------------------------
(* Inputs *)

Cylinders == { Cylinder_new(I(h), I(r)) : h \in 1..MaxHalfHeight, r \in 1..MaxRadius }

Cuboids == { Cuboid_new(I(a), I(b), I(c)) : a \in 1..MaxDim, b \in 1..MaxDim, c \in 1..MaxDim }

Cubes == { Cube_new(I(a)) : a \in 1..MaxDim }

Points == { IVec3(x, y, z) : x \in -MaxCoord..MaxCoord, y \in -MaxCoord..MaxCoord,
                                z \in -MaxCoord..MaxCoord }

\* the points of the three coordinate axes
AxisPoints == { p \in Points :
                  Cardinality({ax \in Axes : ~IsZero(p[ax])}) <= 1 }

Directions == { IVec3(x, y, z) : x \in -MaxDir..MaxDir, y \in -MaxDir..MaxDir,
                                    z \in -MaxDir..MaxDir }

\* every ray from a grid point, the zero direction included
Rays == { Ray3(o, d) : o \in Points, d \in Directions }

\* the rays the box routine is asked: from a point of an axis, in any direction
\* (the box routine is given no ray without a direction)
AxisRays == { Ray3(o, d) : o \in AxisPoints, d \in Directions \ {VZero} }

Floats == { Float(neg, mag) : neg \in BOOLEAN, mag \in 0..MaxNormal }

Normals == { Vec3(x, y, z) : x \in Floats, y \in Floats, z \in Floats }

\* the normals a Cylinder is asked about, the zero vector included
CylNormals == { IVec3(x, y, z) : x \in -MaxNormal..MaxNormal, y \in -MaxNormal..MaxNormal,
                                    z \in -MaxNormal..MaxNormal }

Transforms == { Decomposed(I(s), k, IVec3(dx, 0, 0)) :
                  s \in 0..MaxScale, k \in 0..3, dx \in 0..MaxDisp }

Identity == Decomposed(One, 0, VZero)

NoArg == [kind |-> "none"]

RayArg(r) == [kind |-> "ray", ray |-> r]

NormalArg(n) == [kind |-> "normal", normal |-> n]

SupportArg(d, t, nz) ==
    [kind |-> "support", direction |-> d, transform |-> t, neg_zero |-> nz]

-----------------------------------------------------------------------------
(* Cylinder ray queries: a cylinder is constructed and asked one ray query *)

InitCylRay ==
    /\ shape \in Cylinders
    /\ arg \in { RayArg(r) : r \in Rays }
    /\ op = "new"
    /\ res = None

CylIntersects ==
    /\ shape.kind = "Cylinder" /\ arg.kind = "ray"
    /\ op = "new"
    /\ op' = "intersects"
    /\ res' = Some(Cylinder_intersects(shape, arg.ray))
    /\ UNCHANGED <<shape, arg>>

CylIntersection ==
    /\ shape.kind = "Cylinder" /\ arg.kind = "ray"
    /\ op = "new"
    /\ op' = "intersection"
    /\ res' = Cylinder_intersection(shape, arg.ray)
    /\ UNCHANGED <<shape, arg>>

CylIntersectionNormal ==
    /\ shape.kind = "Cylinder" /\ arg.kind = "ray"
    /\ op = "new"
    /\ op' = "intersection_normal"
    /\ res' = Cylinder_intersection_normal(shape, arg.ray)
    /\ UNCHANGED <<shape, arg>>

NextCylRay == CylIntersects \/ CylIntersection \/ CylIntersectionNormal

SpecCylRay == InitCylRay /\ [][NextCylRay]_vars

-----------------------------------------------------------------------------
(* Cylinder support point, normal and bounds: any sequence of queries on one  *)
(* value                                                                     *)

InitCylinder ==
    /\ shape \in Cylinders
    /\ arg \in {NoArg} \cup { SupportArg(d, t, nz) : d \in Directions, t \in Transforms,
                                                    nz \in BOOLEAN }
                       \cup { NormalArg(n) : n \in CylNormals }
    /\ op = "new"
    /\ res = None

CylSupportPoint ==
    /\ shape.kind = "Cylinder" /\ arg.kind = "support"
    /\ op' = "support_point"
    /\ res' = Cylinder_support_point(shape, arg.direction, arg.transform, arg.neg_zero)
    /\ UNCHANGED <<shape, arg>>

CylComputeBoundAabb ==
    /\ shape.kind = "Cylinder" /\ arg.kind = "none"
    /\ op' = "compute_bound_aabb"
    /\ res' = Some(Cylinder_compute_bound_aabb(shape))
    /\ UNCHANGED <<shape, arg>>

CylComputeBoundSphere ==
    /\ shape.kind = "Cylinder" /\ arg.kind = "none"
    /\ op' = "compute_bound_sphere"
    /\ res' = Some(Cylinder_compute_bound_sphere(shape))
    /\ UNCHANGED <<shape, arg>>

CylClosestValidNormal ==
    /\ shape.kind = "Cylinder" /\ arg.kind = "normal"
    /\ op' = "closest_valid_normal_local"
    /\ res' = Some(VNorm(Cylinder_closest_valid_normal_local(shape, arg.normal)))
    /\ UNCHANGED <<shape, arg>>

NextCylinder ==
    \/ CylSupportPoint \/ CylClosestValidNormal
    \/ CylComputeBoundAabb \/ CylComputeBoundSphere

SpecCylinder == InitCylinder /\ [][NextCylinder]_vars

-----------------------------------------------------------------------------
(* Cuboid and Cube: any sequence of bound and normal queries on one value, or *)
(* one ray query                                                              *)

InitCuboid ==
    /\ \/ /\ shape \in Cuboids
          /\ arg \in {NoArg} \cup { NormalArg(n) : n \in Normals }
                             \cup { RayArg(r) : r \in AxisRays }
       \/ /\ shape \in Cubes
          /\ arg \in { NormalArg(n) : n \in Normals }
    /\ op = "new"
    /\ res = None

CuboidClosestValidNormal ==
    /\ shape.kind = "Cuboid" /\ arg.kind = "normal"
    /\ op' = "closest_valid_normal_local"
    /\ res' = Some(Cuboid_closest_valid_normal_local(shape, arg.normal))
    /\ UNCHANGED <<shape, arg>>

CubeClosestValidNormal ==
    /\ shape.kind = "Cube" /\ arg.kind = "normal"
    /\ op' = "closest_valid_normal_local"
    /\ res' = Some(Cube_closest_valid_normal_local(shape, arg.normal))
    /\ UNCHANGED <<shape, arg>>

CuboidComputeBoundAabb ==
    /\ shape.kind = "Cuboid" /\ arg.kind = "none"
    /\ op' = "compute_bound_aabb"
    /\ res' = Some(Cuboid_compute_bound_aabb(shape))
    /\ UNCHANGED <<shape, arg>>

CuboidComputeBoundSphere ==
    /\ shape.kind = "Cuboid" /\ arg.kind = "none"
    /\ op' = "compute_bound_sphere"
    /\ res' = Some(Cuboid_compute_bound_sphere(shape))
    /\ UNCHANGED <<shape, arg>>

CuboidIntersects ==
    /\ shape.kind = "Cuboid" /\ arg.kind = "ray"
    /\ op = "new"
    /\ op' = "intersects"
    /\ res' = Some(Cuboid_intersects(shape, arg.ray))
    /\ UNCHANGED <<shape, arg>>

CuboidIntersection ==
    /\ shape.kind = "Cuboid" /\ arg.kind = "ray"
    /\ op = "new"
    /\ op' = "intersection"
    /\ res' = Cuboid_intersection(shape, arg.ray)
    /\ UNCHANGED <<shape, arg>>

CuboidIntersectionNormal ==
    /\ shape.kind = "Cuboid" /\ arg.kind = "ray"
    /\ op = "new"
    /\ op' = "intersection_normal"
    /\ res' = Cuboid_intersection_normal(shape, arg.ray)
    /\ UNCHANGED <<shape, arg>>

NextCuboid ==
    \/ CuboidClosestValidNormal \/ CubeClosestValidNormal
    \/ CuboidComputeBoundAabb \/ CuboidComputeBoundSphere
    \/ CuboidIntersects \/ CuboidIntersection \/ CuboidIntersectionNormal

SpecCuboid == InitCuboid /\ [][NextCuboid]_vars

-----------------------------------------------------------------------------
(* Every primitive and every query *)

Init == InitCylRay \/ InitCylinder \/ InitCuboid

Next == NextCylRay \/ NextCylinder \/ NextCuboid

Spec == Init /\ [][Next]_vars

-----------------------------------------------------------------------------
(* Geometry the claims are stated against: the solid, its surface, the rays *)

\* p is a point of the finite solid cylinder
InSolid(self, p) ==
    /\ Le(Add(Mul(p.x, p.x), Mul(p.z, p.z)), Mul(self.radius, self.radius))
    /\ Le(p.y, self.half_height)
    /\ Ge(p.y, Neg(self.half_height))

\* p is a point of the cylinder's surface: the lateral surface or a cap
OnSurface(self, p) ==
    /\ InSolid(self, p)
    /\ \/ Eq(Add(Mul(p.x, p.x), Mul(p.z, p.z)), Mul(self.radius, self.radius))
       \/ Eq(p.y, self.half_height)
       \/ Eq(p.y, Neg(self.half_height))

IsVertical(r) ==
    IsZero(r.direction.x) /\ IsZero(r.direction.z) /\ ~IsZero(r.direction.y)

\* sqrt(origin.x^2 + origin.z^2) > radius, without the square root
LateralOutside(self, r) ==
    Gt(Add(Mul(r.origin.x, r.origin.x), Mul(r.origin.z, r.origin.z)),
       Mul(self.radius, self.radius))

\* the parameters at which the ray's line can cross the surface: the roots of the
\* lateral quadratic, the parameters of the two cap planes, and 0 for an origin
\* on the surface
SurfaceParams(self, r) ==
    LET q    == cylinder_ray_quadratic_solve(r, self.radius)
        lat  == IF (IsZero(r.direction.x) /\ IsZero(r.direction.z)) \/ ~q.some THEN {}
                ELSE {q.val[1], q.val[2]}
        caps == IF IsZero(r.direction.y) THEN {}
                ELSE {Div(Sub(self.half_height, r.origin.y), r.direction.y),
                      Div(Sub(Neg(self.half_height), r.origin.y), r.direction.y)}
        zero == IF OnSurface(self, r.origin) THEN {Zero} ELSE {}
    IN  {t \in lat \cup caps \cup zero : Ge(t, Zero) /\ InSolid(self, RayAt(r, t))}

\* the smallest parameter of a non-empty set of parameters
Smallest(T) == CHOOSE t \in T : \A u \in T : Le(t, u)

-----------------------------------------------------------------------------
(* Claims about the Cylinder ray tests *)

\* C1: for every cylinder and ray, intersects(ray) is true exactly when
\* intersection(ray) returns a point, and exactly when intersection_normal(ray)
\* returns a hit
C1_DiscreteAgreesWithContinuous ==
    (shape.kind = "Cylinder" /\ op = "intersects") =>
        /\ res.val = Cylinder_intersection(shape, arg.ray).some
        /\ res.val = Cylinder_intersection_normal(shape, arg.ray).some

\* C2: intersection returns the first point of the cylinder's surface along the
\* ray whenever the half-line meets the finite solid cylinder, and nothing
\* otherwise
C2_FirstHit ==
    (shape.kind = "Cylinder" /\ op = "intersection"
        /\ ~(IsZero(arg.ray.direction.x) /\ IsZero(arg.ray.direction.y) /\ IsZero(arg.ray.direction.z))) =>
        LET T == SurfaceParams(shape, arg.ray)
        IN  IF T = {} THEN ~res.some
            ELSE res.some /\ VEq(res.val, RayAt(arg.ray, Smallest(T)))

\* C3: a ray parallel to the Y axis whose lateral offset exceeds the radius is
\* a miss for every ray test
C3_VerticalOutsideMisses ==
    (shape.kind = "Cylinder" /\ op # "new" /\ IsVertical(arg.ray) /\ LateralOutside(shape, arg.ray)) =>
        /\ op = "intersects" => res.val = FALSE
        /\ op \in {"intersection", "intersection_normal"} => ~res.some

\* C4: a ray parallel to the Y axis within the radius that starts at or above
\* the top cap and points down hits (origin.x, +half_height, origin.z) with
\* normal (0, 1, 0); one that starts at or below the bottom cap and points up
\* hits (origin.x, -half_height, origin.z) with normal (0, -1, 0)
C4_VerticalCapHit ==
    (shape.kind = "Cylinder" /\ op = "intersection_normal"
        /\ IsVertical(arg.ray) /\ ~LateralOutside(shape, arg.ray)) =>
        /\ (Ge(arg.ray.origin.y, shape.half_height) /\ Lt(arg.ray.direction.y, Zero)) =>
              /\ res.some
              /\ VEq(res.val[1], Vec3(arg.ray.origin.x, shape.half_height, arg.ray.origin.z))
              /\ VEq(res.val[2], IVec3(0, 1, 0))
        /\ (Le(arg.ray.origin.y, Neg(shape.half_height)) /\ Gt(arg.ray.direction.y, Zero)) =>
              /\ res.some
              /\ VEq(res.val[1], Vec3(arg.ray.origin.x, Neg(shape.half_height), arg.ray.origin.z))
              /\ VEq(res.val[2], IVec3(0, -1, 0))

\* a downward vertical ray off the axis, within the radius, that starts exactly
\* on the top cap plane has been answered with a hit
C4_Witness ==
    /\ shape.kind = "Cylinder" /\ op = "intersection_normal"
    /\ IsVertical(arg.ray) /\ ~LateralOutside(shape, arg.ray)
    /\ ~IsZero(arg.ray.origin.x)
    /\ Eq(arg.ray.origin.y, shape.half_height) /\ Lt(arg.ray.direction.y, Zero)
    /\ res.some

-----------------------------------------------------------------------------
(* Claims about the bounding volumes *)

\* C5: every one of the 8 corners of a Cuboid lies inside or on the bounding
\* sphere compute_bound returns: its squared distance from the centre is at
\* most the squared radius
C5_SphereEnclosesCorners ==
    (shape.kind = "Cuboid" /\ op = "compute_bound_sphere") =>
        \A i \in 1..8 :
            Le(Magnitude2(VAdd(shape.corners[i], VNeg(res.val.center))),
               Mul(res.val.radius, res.val.radius))

\* the points of the half-integer grid that lie in the solid cylinder
SamplePoints(self) ==
    LET R == 2 * self.radius.n
        H == 2 * self.half_height.n
    IN  { p \in { Vec3(Rat(x, 2), Rat(y, 2), Rat(z, 2)) :
                    x \in -R..R, y \in -H..H, z \in -R..R } : InSolid(self, p) }

\* points of the two cap rims: on the axes and on the diagonals
RimPoints(self) ==
    LET r == self.radius.n
        h == self.half_height
        k == Num(0, r, 2, 2)
    IN  { Vec3(x, y, z) : y \in {h, Neg(h)},
                          x \in {I(r), I(-r), I(0), k, Neg(k)},
                          z \in {I(r), I(-r), I(0), k, Neg(k)} }

OnRim(self, p) ==
    /\ Eq(Add(Mul(p.x, p.x), Mul(p.z, p.z)), Mul(self.radius, self.radius))
    /\ Eq(p.y, self.half_height) \/ Eq(p.y, Neg(self.half_height))

InBox(box, p) ==
    /\ Le(box.min.x, p.x) /\ Le(p.x, box.max.x)
    /\ Le(box.min.y, p.y) /\ Le(p.y, box.max.y)
    /\ Le(box.min.z, p.z) /\ Le(p.z, box.max.z)

\* squared distance of p from the centre of the sphere
Dist2(sphere, p) == Magnitude2(VAdd(p, VNeg(sphere.center)))

\* C6: the AABB of a Cylinder is the box from (-radius, -half_height, -radius)
\* to (radius, half_height, radius), its bounding sphere is centred at the
\* origin with squared radius radius^2 + half_height^2, every point of the
\* cylinder lies in both, and the points of the cap rims lie on the sphere
C6_CylinderBoundsEnclose ==
    /\ (shape.kind = "Cylinder" /\ op = "compute_bound_aabb") =>
          /\ VEq(res.val.min, Vec3(Neg(shape.radius), Neg(shape.half_height), Neg(shape.radius)))
          /\ VEq(res.val.max, Vec3(shape.radius, shape.half_height, shape.radius))
          /\ \A p \in SamplePoints(shape) \cup { q \in RimPoints(shape) : OnRim(shape, q) } :
                InBox(res.val, p)
    /\ (shape.kind = "Cylinder" /\ op = "compute_bound_sphere") =>
          /\ VEq(res.val.center, VZero)
          /\ Ge(res.val.radius, Zero)
          /\ Eq(Mul(res.val.radius, res.val.radius),
                Add(Mul(shape.radius, shape.radius),
                    Mul(shape.half_height, shape.half_height)))
          /\ \A p \in SamplePoints(shape) :
                Le(Dist2(res.val, p), Mul(res.val.radius, res.val.radius))
          /\ \A p \in RimPoints(shape) :
                OnRim(shape, p) =>
                    Eq(Dist2(res.val, p), Mul(res.val.radius, res.val.radius))

\* the bounding sphere of a cylinder whose radius and half height differ has
\* been computed, and its radius is irrational
C6_Witness ==
    /\ shape.kind = "Cylinder" /\ op = "compute_bound_sphere"
    /\ ~Eq(shape.radius, shape.half_height)
    /\ res.val.radius.s # 0
    /\ \E p \in RimPoints(shape) : OnRim(shape, p) /\ p.x.s # 0

-----------------------------------------------------------------------------
(* Claims about the Cuboid *)

\* the 8 sign combinations (+-half_dim.x, +-half_dim.y, +-half_dim.z)
SignCombinations(half_dim) ==
    { Vec3(x, y, z) : x \in {half_dim.x, Neg(half_dim.x)},
                      y \in {half_dim.y, Neg(half_dim.y)},
                      z \in {half_dim.z, Neg(half_dim.z)} }

\* the fields of a Cuboid and its AABB, in one state.  With every half
\* dimension positive the 8 sign combinations are 8 different points, so 8
\* different corners among them are all of them.
CuboidFieldsInv ==
    shape.kind = "Cuboid" =>
        /\ VEq(VScale(shape.half_dim, I(2)), shape.dim)
        /\ \A ax \in Axes : Gt(shape.half_dim[ax], Zero)
        /\ Len(shape.corners) = 8
        /\ Cardinality({ shape.corners[i] : i \in 1..8 }) = 8
        /\ { shape.corners[i] : i \in 1..8 } = SignCombinations(shape.half_dim)
        /\ Cuboid_compute_bound_aabb(shape).min = VNeg(shape.half_dim)
        /\ Cuboid_compute_bound_aabb(shape).max = shape.half_dim
        /\ op = "compute_bound_aabb" =>
              /\ VEq(res.val.min, VNeg(shape.half_dim))
              /\ VEq(res.val.max, shape.half_dim)
              /\ \A i \in 1..8 : \A ax \in Axes :
                    shape.corners[i][ax] \in {res.val.min[ax], res.val.max[ax]}

\* C7: in every state reachable after construction and any sequence of
\* queries, half_dim = dim / 2, the 8 cached corners are the 8 pairwise
\* distinct sign combinations of half_dim, compute_bound (AABB) is the box
\* [-half_dim, +half_dim] whose vertices are those corners, and no query
\* changes dim, half_dim or corners
C7_CuboidInvariants ==
    /\ []CuboidFieldsInv
    /\ [][shape' = shape]_vars

\* the AABB of a cuboid with three sides not all equal has been computed, and
\* its max is the first cached corner
C7_Witness ==
    /\ shape.kind = "Cuboid" /\ op = "compute_bound_aabb"
    /\ ~Eq(shape.dim.x, shape.dim.y) /\ ~Eq(shape.dim.y, shape.dim.z)
    /\ VEq(res.val.max, shape.corners[1])

\* the axis the origin of the ray lies on, off the centre
OriginAxis(r) == CHOOSE ax \in Axes : ~IsZero(r.origin[ax])

\* the ray starts on one axis, outside the cuboid, and runs along that axis
OnAxisOutside(self, r) ==
    /\ ~VIsZero(r.origin)
    /\ \A ax \in Axes \ {OriginAxis(r)} :
          IsZero(r.origin[ax]) /\ IsZero(r.direction[ax])
    /\ ~IsZero(r.direction[OriginAxis(r)])
    /\ \/ Gt(r.origin[OriginAxis(r)], self.half_dim[OriginAxis(r)])
       \/ Lt(r.origin[OriginAxis(r)], Neg(self.half_dim[OriginAxis(r)]))

\* the ray runs toward the centre
Inward(r) == Sign(r.origin[OriginAxis(r)]) # Sign(r.direction[OriginAxis(r)])

\* the point of the cuboid's face on the side the ray starts from, on the axis
EntryPoint(self, r) ==
    VScale(Unit(OriginAxis(r), Sign(r.origin[OriginAxis(r)])),
           self.half_dim[OriginAxis(r)])

\* C8: a ray that starts on an axis at distance d > h from the centre and
\* points inward hits at the point of that axis with coordinate +-h on the
\* entry side, d - h from its origin, with the outward unit normal of that
\* side; one that points outward is a miss for all three ray tests
C8_OnAxisRay ==
    (shape.kind = "Cuboid" /\ arg.kind = "ray" /\ op # "new"
        /\ OnAxisOutside(shape, arg.ray)) =>
        IF Inward(arg.ray)
        THEN /\ op = "intersects" => res.val = TRUE
             /\ op = "intersection" =>
                   res.some /\ VEq(res.val, EntryPoint(shape, arg.ray))
             /\ op = "intersection_normal" =>
                   /\ res.some
                   /\ VEq(res.val[1], EntryPoint(shape, arg.ray))
                   /\ Eq(Magnitude2(VAdd(res.val[1], VNeg(arg.ray.origin))),
                         LET d == Sub(Mul(I(Sign(arg.ray.origin[OriginAxis(arg.ray)])),
                                          arg.ray.origin[OriginAxis(arg.ray)]),
                                      shape.half_dim[OriginAxis(arg.ray)])
                         IN  Mul(d, d))
                   /\ VEq(res.val[2],
                          Unit(OriginAxis(arg.ray),
                               Sign(arg.ray.origin[OriginAxis(arg.ray)])))
        ELSE /\ op = "intersects" => res.val = FALSE
             /\ op \in {"intersection", "intersection_normal"} => ~res.some

\* a ray from the negative side of the Z axis toward the centre has been
\* answered with the point and the normal of the -Z face
C8_Witness ==
    /\ shape.kind = "Cuboid" /\ arg.kind = "ray" /\ op = "intersection_normal"
    /\ OnAxisOutside(shape, arg.ray) /\ Inward(arg.ray)
    /\ Lt(arg.ray.origin.z, Zero)
    /\ ~Eq(shape.half_dim.z, shape.half_dim.x)
    /\ res.some /\ VEq(res.val[2], IVec3(0, 0, -1))

FaceNormals == { Unit(ax, k) : ax \in Axes, k \in {-1, 1} }

\* the magnitude of component ax is strictly larger than the other two
Dominant(normal, ax) == \A b \in Axes \ {ax} : normal[ax].mag > normal[b].mag

\* C10: closest_valid_normal_local returns one of the six face normals; when
\* one component of the input is strictly larger in magnitude than the other
\* two, the result is the unit vector of that axis with the sign of that
\* component; a Cube returns what its inner Cuboid returns
C10_ClosestValidNormal ==
    (arg.kind = "normal" /\ op = "closest_valid_normal_local") =>
        /\ res.val \in FaceNormals
        /\ \A ax \in Axes :
              Dominant(arg.normal, ax) =>
                  res.val = Unit(ax, IF arg.normal[ax].neg THEN -1 ELSE 1)
        /\ shape.kind = "Cube" =>
              res.val = Cuboid_closest_valid_normal_local(shape.cuboid, arg.normal)

\* a Cube has been asked for a normal whose Y component is negative and
\* dominates
C10_Witness ==
    /\ shape.kind = "Cube" /\ op = "closest_valid_normal_local"
    /\ Dominant(arg.normal, "y") /\ arg.normal.y.neg
    /\ arg.normal.x.mag > 0 /\ ~arg.normal.x.neg
    /\ res.val = IVec3(0, -1, 0)

-----------------------------------------------------------------------------
(* Claims about the Cylinder support point *)

\* the direction in the cylinder's local space
LocalDirection == inverse_transform_vector(arg.transform, arg.direction).val

\* the returned world point taken back to local space: rot^-1 * (p - disp) / scale
LocalPoint ==
    VDiv(RotZ((4 - arg.transform.rot) % 4, VAdd(res.val, VNeg(arg.transform.disp))),
         arg.transform.scale)

\* the largest dot product a point of the cylinder has with the direction d:
\* radius * |(d.x, d.z)| + half_height * |d.y|
MaxDot(self, d) ==
    Add(Mul(self.radius, Magnitude(Vec3(d.x, Zero, d.z))),
        Mul(self.half_height, IF Lt(d.y, Zero) THEN Neg(d.y) ELSE d.y))

\* C9: in local space the support point has Y = +half_height when the sign of
\* the local direction's Y is non-negative (it is positive, or a zero without
\* the sign bit) and -half_height otherwise; its lateral part is radius times
\* the unit vector of the local direction's lateral part, or (0, 0) when that
\* part is zero; the point returned is the forward transform of that local
\* point.  Under the identity transform the point lies on the cylinder and no
\* point of the cylinder has a larger dot product with the direction.
C9_SupportPoint ==
    (shape.kind = "Cylinder" /\ op = "support_point" /\ ~IsZero(arg.transform.scale)) =>
        /\ res.some
        /\ Eq(LocalPoint.y,
              IF Gt(LocalDirection.y, Zero) \/ (IsZero(LocalDirection.y) /\ ~arg.neg_zero)
              THEN shape.half_height ELSE Neg(shape.half_height))
        /\ IF IsZero(LocalDirection.x) /\ IsZero(LocalDirection.z)
           THEN IsZero(LocalPoint.x) /\ IsZero(LocalPoint.z)
           ELSE \* on the circle of the given radius, parallel to the lateral
                \* direction and on its side
                /\ Eq(Add(Mul(LocalPoint.x, LocalPoint.x), Mul(LocalPoint.z, LocalPoint.z)),
                      Mul(shape.radius, shape.radius))
                /\ Eq(Mul(LocalPoint.x, LocalDirection.z), Mul(LocalPoint.z, LocalDirection.x))
                /\ Gt(Add(Mul(LocalPoint.x, LocalDirection.x),
                          Mul(LocalPoint.z, LocalDirection.z)), Zero)
        /\ arg.transform = Identity =>
              /\ OnSurface(shape, res.val)
              /\ Eq(Dot(res.val, arg.direction), MaxDot(shape, arg.direction))
              /\ \A q \in SamplePoints(shape) :
                    Le(Dot(q, arg.direction), Dot(res.val, arg.direction))

\* a support point has been returned under a transform that turns and moves
\* the cylinder, for a direction whose local form points down and sideways
C9_Witness ==
    /\ shape.kind = "Cylinder" /\ op = "support_point"
    /\ ~IsZero(arg.transform.scale) /\ arg.transform.rot # 0
    /\ ~IsZero(arg.transform.disp.x)
    /\ Lt(LocalDirection.y, Zero) /\ ~IsZero(LocalDirection.x) /\ ~IsZero(LocalDirection.z)
    /\ res.some /\ Eq(LocalPoint.y, Neg(shape.half_height))

-----------------------------------------------------------------------------
(* Claims about ties in the Cuboid's closest valid normal *)

\* the largest of the three component magnitudes
LargestMag(normal) ==
    CHOOSE m \in {normal.x.mag, normal.y.mag, normal.z.mag} :
        \A ax \in Axes : normal[ax].mag <= m

\* the axes whose component attains the largest magnitude
Largest(normal) == { ax \in Axes : normal[ax].mag = LargestMag(normal) }

\* the largest magnitude is attained by two or three components
Tied(normal) == Cardinality(Largest(normal)) >= 2

\* the axis of a face normal
AxisOf(n) == CHOOSE ax \in Axes : ~IsZero(n[ax])

\* C11: when two or three components attain the largest magnitude, the tie is
\* broken in the order x > y > z: X whenever |x| is among the largest,
\* otherwise Y whenever |y| is among the largest
C11_TieBreakXYZ ==
    (shape.kind = "Cuboid" /\ arg.kind = "normal"
        /\ op = "closest_valid_normal_local" /\ Tied(arg.normal)) =>
        AxisOf(res.val) = IF "x" \in Largest(arg.normal) THEN "x"
                          ELSE IF "y" \in Largest(arg.normal) THEN "y" ELSE "z"

\* C11, as the code breaks ties: in the order z > y > x.  When two or three
\* components attain the largest magnitude, the Z face normal is returned
\* whenever |z| is among the largest and the Y face normal otherwise (then
\* |x| = |y| > |z|); the X face normal is never returned on a tie.  The normal
\* carries the signum of the winning component.
C11_TieBreakZYX ==
    (shape.kind = "Cuboid" /\ arg.kind = "normal"
        /\ op = "closest_valid_normal_local" /\ Tied(arg.normal)) =>
        LET ax == IF "z" \in Largest(arg.normal) THEN "z" ELSE "y"
        IN  /\ res.val = Unit(ax, IF arg.normal[ax].neg THEN -1 ELSE 1)
            /\ AxisOf(res.val) # "x"

\* a normal with |x| = |y| > |z| has been answered with the Y face normal
C11_Witness ==
    /\ shape.kind = "Cuboid" /\ op = "closest_valid_normal_local"
    /\ arg.normal.x.mag = arg.normal.y.mag /\ arg.normal.y.mag > arg.normal.z.mag
    /\ arg.normal.y.neg /\ ~arg.normal.x.neg
    /\ res.val = IVec3(0, -1, 0)

-----------------------------------------------------------------------------
(* Claims about the Cylinder's closest valid normal and its degenerate cases *)

\* v.x^2 + v.z^2: the squared magnitude of the lateral part
Lateral2(v) == Add(Mul(v.x, v.x), Mul(v.z, v.z))

\* |normal.y| is strictly greater than the magnitude of the lateral part
AxialDominates(normal) == Gt(Mul(normal.y, normal.y), Lateral2(normal))

\* C12: for a non-zero normal, closest_valid_normal_local returns the cap
\* normal (0, sign(normal.y), 0) when |normal.y| is strictly greater than the
\* magnitude of the lateral part, and otherwise (the tie included) the lateral
\* part scaled to unit length with Y = 0; the result is a unit vector that is
\* +-unit_y or has zero Y
C12_CylinderClosestNormal ==
    (shape.kind = "Cylinder" /\ op = "closest_valid_normal_local"
        /\ ~VIsZero(arg.normal)) =>
        /\ VFinite(res.val)
        /\ Eq(Magnitude2(res.val), One)
        /\ IF AxialDominates(arg.normal)
           THEN VEq(res.val, Vec3(Zero, I(Sign(arg.normal.y)), Zero))
           ELSE /\ IsZero(res.val.y)
                /\ Eq(Mul(res.val.x, arg.normal.z), Mul(res.val.z, arg.normal.x))
                /\ Gt(Add(Mul(res.val.x, arg.normal.x), Mul(res.val.z, arg.normal.z)),
                      Zero)

\* a normal whose |y| equals the magnitude of a slanted lateral part has been
\* answered with the unit lateral vector
C12_Witness ==
    /\ shape.kind = "Cylinder" /\ op = "closest_valid_normal_local"
    /\ ~IsZero(arg.normal.y)
    /\ Eq(Mul(arg.normal.y, arg.normal.y), Lateral2(arg.normal))
    /\ IsZero(res.val.y) /\ Eq(Lateral2(res.val), One)

\* C13: whenever a zero-length lateral vector has to be normalized
\* (support_point with a local direction straight up, straight down or zero;
\* closest_valid_normal_local with the zero normal), the zero vector is used in
\* its place, and every component of the result is a defined number
C13_ZeroLateralIsDefined ==
    /\ (shape.kind = "Cylinder" /\ op = "support_point"
           /\ ~IsZero(arg.transform.scale)
           /\ IsZero(Lateral2(inverse_transform_vector(arg.transform, arg.direction).val))) =>
          res.some /\ VFinite(res.val)
    /\ (shape.kind = "Cylinder" /\ op = "closest_valid_normal_local"
           /\ VIsZero(arg.normal)) =>
          VFinite(res.val)

\* C14: no query ends in a fault; support_point returns a point for every
\* direction and every transform, a transform of zero scale included
C14_NoFault ==
    (shape.kind = "Cylinder" /\ op # "new") =>
        /\ ~IsFault(res)
        /\ op = "support_point" => res.some

-----------------------------------------------------------------------------
(* Claims about the hits of the Cylinder ray tests *)

\* the ray is not parallel to the Y axis: the quadratic branch answers it
IsGeneral(r) == ~(IsZero(r.direction.x) /\ IsZero(r.direction.z))

\* the smaller of the non-negative roots of the lateral quadratic
SmallerRoot(self, r) ==
    LET q == cylinder_ray_quadratic_solve(r, self.radius)
    IN  Smallest({ t \in {q.val[1], q.val[2]} : Ge(t, Zero) })

\* a cap test succeeds: the cap parameter is >= 0, strictly smaller than the
\* current best t, and the point of the cap plane is strictly inside the radius
CapHit(self, r) ==
    LET best == SmallerRoot(self, r)
    IN  \E tc \in { CapParam(self.half_height, r, VNeg(unit_y)),
                    CapParam(Neg(self.half_height), r, unit_y) } :
            Ge(tc, Zero) /\ Lt(tc, best) /\ InsideRadius(self, RayAt(r, tc))

\* C15: a hit (p, n) of intersection_normal lies on the finite cylinder's
\* surface; if a cap test produced it, p.y is exactly +half_height with
\* n = (0, 1, 0) or exactly -half_height with n = (0, -1, 0); otherwise p is
\* the point at the smaller non-negative quadratic root and n is the unit
\* vector in the direction (p.x, 0, p.z)
C15_HitOnSurface ==
    (shape.kind = "Cylinder" /\ op = "intersection_normal" /\ res.some) =>
        /\ Le(res.val[1].y, shape.half_height)
        /\ Ge(res.val[1].y, Neg(shape.half_height))
        /\ Le(Lateral2(res.val[1]), Mul(shape.radius, shape.radius))
        /\ OnSurface(shape, res.val[1])
        /\ IsGeneral(arg.ray) =>
              IF CapHit(shape, arg.ray)
              THEN \/ /\ Eq(res.val[1].y, shape.half_height)
                      /\ VEq(res.val[2], IVec3(0, 1, 0))
                   \/ /\ Eq(res.val[1].y, Neg(shape.half_height))
                      /\ VEq(res.val[2], IVec3(0, -1, 0))
              ELSE /\ VEq(res.val[1], RayAt(arg.ray, SmallerRoot(shape, arg.ray)))
                   /\ IsZero(res.val[2].y)
                   /\ Eq(Lateral2(res.val[2]), One)
                   /\ Eq(Mul(res.val[2].x, res.val[1].z), Mul(res.val[2].z, res.val[1].x))
                   /\ Gt(Add(Mul(res.val[2].x, res.val[1].x),
                             Mul(res.val[2].z, res.val[1].z)), Zero)

\* a slanted ray from above has been answered with a point of the top cap
\* other than its origin
C15_Witness ==
    /\ shape.kind = "Cylinder" /\ op = "intersection_normal" /\ res.some
    /\ IsGeneral(arg.ray) /\ CapHit(shape, arg.ray)
    /\ Gt(arg.ray.origin.y, shape.half_height)
    /\ VEq(res.val[2], IVec3(0, 1, 0))

\* C16: whenever intersection_normal returns a hit, intersects is true, for
\* rays parallel to the Y axis and for all others
C16_ContinuousImpliesDiscrete ==
    (shape.kind = "Cylinder" /\ op = "intersection_normal" /\ res.some) =>
        Cylinder_intersects(shape, arg.ray)

\* a hit on the top cap at parameter 0, by a ray whose lateral root lies above
\* the cylinder
C16_Witness ==
    /\ shape.kind = "Cylinder" /\ op = "intersection_normal" /\ res.some
    /\ IsGeneral(arg.ray)
    /\ Eq(arg.ray.origin.y, shape.half_height) /\ Gt(arg.ray.direction.y, Zero)
    /\ VEq(res.val[1], arg.ray.origin)
    /\ Gt(RayAt(arg.ray, SmallerRoot(shape, arg.ray)).y, shape.half_height)

====
